---- MODULE Spec2Model ----
(***************************************************************************)
(* Model of chatbot_main.py: the chunker, the in-memory index (texts and   *)
(* embeddings), the retriever, and the /upload and /ask handlers.          *)
(*                                                                         *)
(* Text is a sequence of one-character strings.  An embedding is a pair of *)
(* naturals.  /upload is a coroutine on the single event loop; /ask is a   *)
(* plain function and therefore runs on a worker thread.                   *)
(***************************************************************************)
EXTENDS Integers, Sequences, FiniteSets, TLC

VARIABLES texts, embeddings, disk, running, up, rq, ck

vars == <<texts, embeddings, disk, running, up, rq, ck>>

None == "None"

(***************************************************************************)
(* Bounds of the model.                                                    *)
(***************************************************************************)
NumUploads == 2
NumAsks == 1
MaxFiles == 2
MaxLen == 4
MaxW == 3
MaxK == 3
MaxIndex == 3

(***************************************************************************)
(* Program constants.                                                      *)
(***************************************************************************)
DefaultChunkSize == 400
DefaultOverlap == 50
AskK == 3

Min(a, b) == IF a < b THEN a ELSE b
Max(a, b) == IF a > b THEN a ELSE b

Fill(c, n) == [i \in 1..n |-> c]

(***************************************************************************)
(* Python string primitives used by the program.                           *)
(***************************************************************************)
Whitespace == {" ", "\n"}

\* s[a:b] with 0-based bounds, clamped, negative bounds counted from the end
Slice(s, a, b) ==
  LET n == Len(s)
      norm(i) == IF i < 0 THEN Max(i + n, 0) ELSE Min(i, n)
  IN SubSeq(s, norm(a) + 1, norm(b))

RECURSIVE FirstNonSpace(_, _)
\* the first position from i on that holds no white space, Len(s) + 1 if none
FirstNonSpace(s, i) ==
  IF i > Len(s) \/ s[i] \notin Whitespace THEN i ELSE FirstNonSpace(s, i + 1)

RECURSIVE LastNonSpace(_, _)
\* the last position up to i that holds no white space, 0 if none
LastNonSpace(s, i) ==
  IF i = 0 \/ s[i] \notin Whitespace THEN i ELSE LastNonSpace(s, i - 1)

\* str.strip(): from the first to the last character that is not white space
Strip(s) == SubSeq(s, FirstNonSpace(s, 1), LastNonSpace(s, Len(s)))

\* str.replace(" ", "_")
ReplaceSpaces(s) == [i \in 1..Len(s) |-> IF s[i] = " " THEN "_" ELSE s[i]]

RECURSIVE JoinLines(_)
\* "\n".join(parts)
JoinLines(parts) ==
  IF Len(parts) = 0 THEN <<>>
  ELSE IF Len(parts) = 1 THEN parts[1]
  ELSE parts[1] \o <<"\n">> \o JoinLines(Tail(parts))

(***************************************************************************)
(* chunk_text                                                              *)
(***************************************************************************)
\* end = chunk_size: the window does not follow start
WindowEndFixed(start, chunk_size) == chunk_size

\* end = start + chunk_size
WindowEnd(start, chunk_size) == start + chunk_size

\* start = end - overlap
NextStart(end, overlap) == end - overlap

RECURSIVE KeepNonEmpty(_)
\* [c for c in chunks if c.strip()]: the chunks are filtered but not trimmed
KeepNonEmpty(cs) ==
  IF cs = <<>> THEN <<>>
  ELSE IF Strip(Head(cs)) # <<>>
       THEN <<Head(cs)>> \o KeepNonEmpty(Tail(cs))
       ELSE KeepNonEmpty(Tail(cs))

RECURSIVE StripNonEmpty(_)
\* [c.strip() for c in chunks if c.strip()]
StripNonEmpty(cs) ==
  IF cs = <<>> THEN <<>>
  ELSE LET c == Strip(Head(cs))
       IN IF c # <<>>
          THEN <<c>> \o StripNonEmpty(Tail(cs))
          ELSE StripNonEmpty(Tail(cs))

RECURSIVE chunk_loop(_, _, _, _, _)
chunk_loop(text, chunk_size, overlap, start, chunks) ==
  IF start < Len(text)
  THEN LET end == WindowEnd(start, chunk_size)
       IN chunk_loop(text, chunk_size, overlap, NextStart(end, overlap),
                     Append(chunks, Slice(text, start, end)))
  ELSE chunks

\* chunk_text(text, chunk_size, overlap), defined where the loop ends
chunk_text(text, chunk_size, overlap) ==
  StripNonEmpty(chunk_loop(text, chunk_size, overlap, 0, <<>>))

(***************************************************************************)
(* chunk_text as a machine: one step per iteration of the while loop.      *)
(***************************************************************************)
SmallTexts == UNION {[1..n -> {"a", " "}] : n \in 0..MaxLen}

DefaultTexts ==
  {Fill("a", DefaultChunkSize - DefaultOverlap),
   Fill("a", DefaultChunkSize - DefaultOverlap + 1),
   Fill("a", DefaultChunkSize),
   Fill("a", DefaultChunkSize - DefaultOverlap) \o Fill(" ", DefaultOverlap),
   Fill("a", 2 * DefaultChunkSize)}

ChunkInputs ==
  {<<t, w, o>> : t \in SmallTexts, w \in 1..MaxW, o \in 0..MaxW}
    \cup {<<t, DefaultChunkSize, DefaultOverlap>> : t \in DefaultTexts}

\* iterations after which a window that does not advance is abandoned
IterCap == MaxLen + 2

ckOff == [pc |-> "off", text |-> <<>>, chunk_size |-> 0, overlap |-> 0,
          start |-> 0, chunks |-> <<>>, result |-> <<>>]

ChunkCall(t, w, o) ==
  [pc |-> "loop", text |-> t, chunk_size |-> w, overlap |-> o,
   start |-> 0, chunks |-> <<>>, result |-> <<>>]

\* the frame of the chunker machine: the server is not running
ServerIdle ==
  UNCHANGED <<texts, embeddings, disk, running, up, rq>>

\* lines 51-54: one iteration of the while loop
ChunkLoop ==
  /\ ck.pc = "loop"
  /\ ck.start < Len(ck.text)
  /\ Len(ck.chunks) < IterCap
  /\ LET end == WindowEnd(ck.start, ck.chunk_size)
     IN ck' = [ck EXCEPT !.chunks = Append(@, Slice(ck.text, ck.start, end)),
                         !.start = NextStart(end, ck.overlap)]
  /\ ServerIdle

\* line 55: the loop condition is false, the chunks are stripped and filtered
ChunkReturn ==
  /\ ck.pc = "loop"
  /\ ~(ck.start < Len(ck.text))
  /\ ck' = [ck EXCEPT !.pc = "done", !.result = StripNonEmpty(ck.chunks)]
  /\ ServerIdle

(***************************************************************************)
(* Uploaded files.  A PDF is a sequence of pages; an image-only page has   *)
(* no extractable text.  Bytes that are not a PDF make PdfReader raise.     *)
(***************************************************************************)
Page(t) == [image |-> FALSE, text |-> t]
ImagePage == [image |-> TRUE, text |-> <<>>]
Pdf(pages) == [pages |-> pages]

\* one page longer than chunk_size - overlap: two chunks
FileB == [filename |-> <<"a", "_", "b">>,
          data |-> Pdf(<<Page(<<"a">> \o Fill("b", DefaultChunkSize - DefaultOverlap + 8)
                                    \o <<"a">>)>>)]
\* a scanned page and a page of white space: no text
FileBlank == [filename |-> <<"a", " ", "b">>, data |-> Pdf(<<ImagePage, Page(<<" ">>)>>)]

\* the files a client may send, by a short name
FileOf(id) ==
  CASE id = "B" -> FileB
    [] id = "blank" -> FileBlank

Files == {"B", "blank"}

\* the multipart bodies a client may post to /upload
Requests == UNION {[1..n -> Files] : n \in 1..MaxFiles}

\* lines 154-156, for file names without path separators
TmpDir == <<"/", "t", "m", "p">>
TmpPath(filename) == TmpDir \o <<"/">> \o ReplaceSpaces(filename)

Paths == {TmpPath(FileOf(f).filename) : f \in Files}

\* a path of the disk: absent, the bytes of an uploaded file, or the cut-off
\* bytes that open(tmp_path, "wb") leaves behind when write() raises
Absent == "absent"
Truncated == "truncated"
Stored(id) == id

\* line 45: page.extract_text() or ""
PageText(page) == IF page.image THEN <<>> ELSE page.text

\* read_pdf, when PdfReader accepts the bytes
read_pdf(bytes) ==
  LET pages == FileOf(bytes).data.pages
  IN JoinLines([i \in 1..Len(pages) |-> PageText(pages[i])])

(***************************************************************************)
(* The embedder: a deterministic map from a text to a vector.              *)
(***************************************************************************)
CharVec(c) == IF c = "a" THEN <<1, 0>> ELSE IF c = "b" THEN <<0, 1>> ELSE <<0, 0>>

EmbedText(s) ==
  IF s = <<>> THEN <<0, 0>>
  ELSE <<CharVec(s[1])[1] + CharVec(s[Len(s)])[1],
         CharVec(s[1])[2] + CharVec(s[Len(s)])[2]>>

\* embedder.encode(list, convert_to_numpy=True): one row per string
encode(list) == [i \in 1..Len(list) |-> EmbedText(list[i])]

NoEmbeddings == [none |-> TRUE, rows |-> <<>>]
Matrix(rows) == [none |-> FALSE, rows |-> rows]

(***************************************************************************)
(* Responses of the handlers.                                              *)
(***************************************************************************)
Resp(kind, n) == [kind |-> kind, n |-> n]
NoResp == Resp(None, 0)
Indexed(n) == Resp("Indexed N chunks.", n)
NoTextExtracted == Resp("No text extracted.", 0)
ErrorResp == Resp("Error: ", 0)
NoDocuments == Resp("No documents indexed yet. Upload PDFs first.", 0)
KeyNotSet == Resp("Error: GROK_API_KEY is not set in your .env file.", 0)
GroqError == Resp("Groq API Error: ", 0)
Answer == Resp("answer", 0)

(***************************************************************************)
(* POST /upload: a coroutine on the event loop.  running is the coroutine  *)
(* that holds the loop (0: none); it is given up at every await.           *)
(***************************************************************************)
Uploads == 1..NumUploads
Asks == 1..NumAsks

upIdle == [pc |-> "idle", files |-> <<>>, idx |-> 1, all_text |-> <<>>,
           chunks |-> <<>>, resp |-> NoResp]

\* the handler returns: its locals are gone, the response is sent
UploadReturn(u, r) ==
  /\ up' = [up EXCEPT ![u] = [upIdle EXCEPT !.pc = "done", !.resp = r]]
  /\ running' = 0

CurFile(u) == FileOf(up[u].files[up[u].idx])
CurPath(u) == TmpPath(CurFile(u).filename)

ChunkFrame == UNCHANGED ck

\* lines 149-157: the request arrives and awaits the first file's bytes
UploadStart(u) ==
  /\ up[u].pc = "idle"
  /\ \A v \in 1..(u - 1) : up[v].pc # "idle"
  /\ running = 0
  /\ \E fs \in Requests :
       up' = [up EXCEPT ![u] = [upIdle EXCEPT !.pc = "read", !.files = fs]]
  /\ UNCHANGED <<texts, embeddings, disk, running, rq>>
  /\ ChunkFrame

\* lines 166-167: if os.path.exists(tmp_path): os.remove(tmp_path)
Removed(d, path) == [d EXCEPT ![path] = Absent]

\* lines 159-160: open(tmp_path, "wb") truncates or creates, write() fills
Written(d, path, bytes) == [d EXCEPT ![path] = Stored(bytes)]

\* the guard of line 172 left out
NothingToIndexNever(chunks) == FALSE

\* line 172: if not chunks
NothingToIndex(chunks) == Len(chunks) = 0

\* lines 158-173, one file: the coroutine is resumed with the file's bytes
\* and runs, alone on the event loop and touching only the disk, up to the
\* await of the next file or, after the last file, up to build_index
UploadFile(u) ==
  /\ up[u].pc = "read"
  /\ running = 0
  /\ \/ \* line 158: await f.read() raises
        /\ UploadReturn(u, ErrorResp)
        /\ UNCHANGED disk
     \/ \* line 159: open() raises, nothing is created
        /\ UploadReturn(u, ErrorResp)
        /\ UNCHANGED disk
     \/ \* line 160: open() created the file, write() raises
        /\ UploadReturn(u, ErrorResp)
        /\ disk' = [disk EXCEPT ![CurPath(u)] = Truncated]
     \/ \* lines 162-167: the file is written, PdfReader raises, the finally
        \* block removes the file
        /\ UploadReturn(u, ErrorResp)
        /\ disk' = Removed(Written(disk, CurPath(u), up[u].files[up[u].idx]), CurPath(u))
     \/ \* lines 162-167: the file is written, read under try/finally, removed
        LET written == Written(disk, CurPath(u), up[u].files[up[u].idx])
            all == Append(up[u].all_text, read_pdf(written[CurPath(u)]))
            chunks == chunk_text(JoinLines(all), DefaultChunkSize, DefaultOverlap)
        IN /\ disk' = Removed(written, CurPath(u))
           /\ IF up[u].idx < Len(up[u].files)
              THEN \* line 153: the next file, awaited at line 158
                   /\ up' = [up EXCEPT ![u].all_text = all, ![u].idx = @ + 1]
                   /\ UNCHANGED running
              ELSE \* lines 169-173
                   IF NothingToIndex(chunks)
                   THEN UploadReturn(u, NoTextExtracted)
                   ELSE /\ up' = [up EXCEPT ![u].all_text = all,
                                            ![u].chunks = chunks, ![u].pc = "build"]
                        /\ running' = u
  /\ UNCHANGED <<texts, embeddings, rq>>
  /\ ChunkFrame

\* texts.extend(chunks): the new chunks are merged into the old ones
BuildIndexTextsMerge(u) ==
  /\ up[u].pc = "build"
  /\ running = u
  /\ texts' = texts \o up[u].chunks
  /\ up' = [up EXCEPT ![u].pc = "encode"]
  /\ UNCHANGED <<embeddings, disk, running, rq>>
  /\ ChunkFrame

\* line 59: texts = chunks
BuildIndexTexts(u) ==
  /\ up[u].pc = "build"
  /\ running = u
  /\ texts' = up[u].chunks
  /\ up' = [up EXCEPT ![u].pc = "encode"]
  /\ UNCHANGED <<embeddings, disk, running, rq>>
  /\ ChunkFrame

\* the rows stored in the opposite order of the chunks
IndexRowsReversed(chunks) ==
  [i \in 1..Len(chunks) |-> encode(chunks)[Len(chunks) + 1 - i]]

\* the rows build_index stores for the chunks
IndexRows(chunks) == encode(chunks)

\* a failed encode that also drops the old embeddings
BuildIndexEncodeReset(u) ==
  /\ up[u].pc = "encode"
  /\ running = u
  /\ \/ /\ embeddings' = Matrix(IndexRows(up[u].chunks))
        /\ UploadReturn(u, Indexed(Len(up[u].chunks)))
     \/ /\ UploadReturn(u, ErrorResp)
        /\ embeddings' = NoEmbeddings
  /\ UNCHANGED <<texts, disk, rq>>
  /\ ChunkFrame

\* lines 60-61 and 176: embeddings = embedder.encode(chunks), or it raises
BuildIndexEncode(u) ==
  /\ up[u].pc = "encode"
  /\ running = u
  /\ \/ /\ embeddings' = Matrix(IndexRows(up[u].chunks))
        /\ UploadReturn(u, Indexed(Len(up[u].chunks)))
     \/ /\ UploadReturn(u, ErrorResp)
        /\ UNCHANGED embeddings
  /\ UNCHANGED <<texts, disk, rq>>
  /\ ChunkFrame

(***************************************************************************)
(* The retriever.  A similarity is kept as the fraction num/den of its     *)
(* square; the vectors have no negative component, so neither has a        *)
(* similarity, and comparing the squares compares the similarities.        *)
(***************************************************************************)
\* line 64 negated: there is an index to search
Populated == ~embeddings.none /\ Len(texts) > 0

Dot(x, y) == x[1] * y[1] + x[2] * y[2]

\* cosine_similarity of two rows; a zero row has similarity 0
Sim(q, e) ==
  IF Dot(q, q) * Dot(e, e) = 0 THEN [num |-> 0, den |-> 1]
  ELSE [num |-> Dot(q, e) * Dot(q, e), den |-> Dot(q, q) * Dot(e, e)]

SimLeq(x, y) == x.num * y.den <= y.num * x.den
SimLess(x, y) == x.num * y.den < y.num * x.den

\* line 67: cosine_similarity(q_emb, embeddings)[0]
cosine_similarity(q_emb, rows) == [i \in 1..Len(rows) |-> Sim(q_emb, rows[i])]

\* sims.argsort(): the 0-based orders that sort sims ascending; the order of
\* equal similarities is left to the sort
argsort(sims) ==
  {p \in [1..Len(sims) -> 0..(Len(sims) - 1)] :
     /\ \A i, j \in 1..Len(sims) : i # j => p[i] # p[j]
     /\ \A i, j \in 1..Len(sims) : i < j => SimLeq(sims[p[i] + 1], sims[p[j] + 1])}

Reverse(s) == [i \in 1..Len(s) |-> s[Len(s) + 1 - i]]

\* line 68: order[-k:][::-1]
TopK(order, k) == Reverse(Slice(order, 0 - k, Len(order)))

\* the guard of line 186 left out
NoContextNever(ctx) == FALSE

\* line 186: if not ctx
NoContext(ctx) == Len(ctx) = 0

Queries == {<<"a">>, <<"b">>}

rqIdle == [pc |-> "idle", query |-> <<>>, k |-> 0, q_emb |-> <<0, 0>>,
           rows |-> <<>>, top_k |-> <<>>, ctx |-> <<>>, resp |-> NoResp,
           embedded |-> FALSE, generated |-> FALSE]

\* the call returns: its locals are gone, the response is sent
AskReturn(a, r, called) ==
  rq' = [rq EXCEPT ![a] = [rqIdle EXCEPT !.pc = "done", !.resp = r,
                                         !.embedded = rq[a].embedded,
                                         !.generated = called]]

\* search returns the list: only ask's query and ctx are left
SearchReturn(a, result) ==
  rq' = [rq EXCEPT ![a] = [rqIdle EXCEPT !.pc = "respond", !.query = rq[a].query,
                                         !.ctx = result,
                                         !.embedded = rq[a].embedded]]

AskFrame == UNCHANGED <<texts, embeddings, disk, running, up, ck>>

\* line 185: ask calls search(query, k=3) on a worker thread
AskStart(a) ==
  /\ rq[a].pc = "idle"
  /\ \A b \in 1..(a - 1) : rq[b].pc # "idle"
  /\ \E q \in Queries :
       rq' = [rq EXCEPT ![a] = [rqIdle EXCEPT !.pc = "check_embeddings",
                                              !.query = q, !.k = AskK]]
  /\ AskFrame

\* a direct call search(query, k)
SearchCall(a) ==
  /\ rq[a].pc = "idle"
  /\ \A b \in 1..(a - 1) : rq[b].pc # "idle"
  /\ \E q \in Queries, k \in 0..MaxK :
       rq' = [rq EXCEPT ![a] = [rqIdle EXCEPT !.pc = "check_embeddings",
                                              !.query = q, !.k = k]]
  /\ AskFrame

\* line 64, left operand: embeddings is None
SearchCheckEmbeddings(a) ==
  /\ rq[a].pc = "check_embeddings"
  /\ IF embeddings.none
     THEN SearchReturn(a, <<>>)
     ELSE rq' = [rq EXCEPT ![a].pc = "check_texts"]
  /\ AskFrame

\* line 64, right operand: len(texts) == 0
SearchCheckTexts(a) ==
  /\ rq[a].pc = "check_texts"
  /\ IF Len(texts) = 0
     THEN SearchReturn(a, <<>>)
     ELSE rq' = [rq EXCEPT ![a].pc = "sims"]
  /\ AskFrame

\* lines 66-68: the query is embedded, the similarities are computed against
\* the matrix read now, and top_k is taken; rows remembers the matrix read
SearchSims(a) ==
  /\ rq[a].pc = "sims"
  /\ LET q_emb == EmbedText(rq[a].query)
     IN IF embeddings.none
        THEN \* cosine_similarity raises on None, after the query was embedded
             rq' = [rq EXCEPT ![a] = [rqIdle EXCEPT !.pc = "done",
                                                    !.resp = ErrorResp,
                                                    !.embedded = TRUE]]
        ELSE \E order \in argsort(cosine_similarity(q_emb, embeddings.rows)) :
               rq' = [rq EXCEPT ![a].q_emb = q_emb,
                                ![a].embedded = TRUE,
                                ![a].rows = embeddings.rows,
                                ![a].top_k = TopK(order, rq[a].k),
                                ![a].pc = "lookup"]
  /\ AskFrame

\* line 69: one element of [texts[i] for i in top_k]; texts is read again
\* for every element, and an index past its end raises IndexError
SearchLookup(a) ==
  /\ rq[a].pc = "lookup"
  /\ LET j == Len(rq[a].ctx) + 1
     IN IF j > Len(rq[a].top_k)
        THEN SearchReturn(a, rq[a].ctx)
        ELSE IF rq[a].top_k[j] >= Len(texts)
             THEN AskReturn(a, ErrorResp, FALSE)
             ELSE rq' = [rq EXCEPT ![a].ctx = Append(@, texts[rq[a].top_k[j] + 1])]
  /\ AskFrame

\* lines 72-89: generate_answer returns the fixed message when the key is not
\* set in the environment, the model's reply, or the message of a failed call
generate_answer_results == {KeyNotSet, Answer, GroqError}

\* lines 186-189
AskRespond(a) ==
  /\ rq[a].pc = "respond"
  /\ IF NoContext(rq[a].ctx)
     THEN AskReturn(a, NoDocuments, FALSE)
     ELSE \E r \in generate_answer_results : AskReturn(a, r, TRUE)
  /\ AskFrame

(***************************************************************************)
(* The server: uploads and asks, from an empty index.                      *)
(***************************************************************************)
Init ==
  /\ texts = <<>>
  /\ embeddings = NoEmbeddings
  /\ disk = [p \in Paths |-> Absent]
  /\ running = 0
  /\ up = [u \in Uploads |-> upIdle]
  /\ rq = [a \in Asks |-> rqIdle]
  /\ ck = ckOff

Next ==
  \/ \E u \in Uploads : UploadStart(u)
  \/ \E u \in Uploads : UploadFile(u)
  \/ \E u \in Uploads : BuildIndexTexts(u)
  \/ \E u \in Uploads : BuildIndexEncode(u)
  \/ \E a \in Asks : AskStart(a)
  \/ \E a \in Asks : SearchCheckEmbeddings(a)
  \/ \E a \in Asks : SearchCheckTexts(a)
  \/ \E a \in Asks : SearchSims(a)
  \/ \E a \in Asks : SearchLookup(a)
  \/ \E a \in Asks : AskRespond(a)

Spec == Init /\ [][Next]_vars

(***************************************************************************)
(* chunk_text alone, on every small text and window, the degenerate        *)
(* windows included.  The loop is a sequential program: it keeps running.  *)
(***************************************************************************)
ChunkInit ==
  /\ texts = <<>>
  /\ embeddings = NoEmbeddings
  /\ disk = [p \in Paths |-> Absent]
  /\ running = 0
  /\ up = [u \in Uploads |-> upIdle]
  /\ rq = [a \in Asks |-> rqIdle]
  /\ \E in \in ChunkInputs : ck = ChunkCall(in[1], in[2], in[3])

ChunkNext == ChunkLoop \/ ChunkReturn

ChunkSpec == ChunkInit /\ [][ChunkNext]_vars /\ WF_vars(ChunkNext)

(***************************************************************************)
(* search alone, on every small index and every k.                         *)
(***************************************************************************)
ChunkPool == {<<"a">>, <<"b">>, <<"a", "b">>}

Indexes == UNION {[1..n -> ChunkPool] : n \in 0..MaxIndex}

SearchInit ==
  /\ \E ix \in Indexes :
       /\ texts = ix
       /\ embeddings = IF ix = <<>> THEN NoEmbeddings ELSE Matrix(encode(ix))
  /\ disk = [p \in Paths |-> Absent]
  /\ running = 0
  /\ up = [u \in Uploads |-> upIdle]
  /\ rq = [a \in Asks |-> rqIdle]
  /\ ck = ckOff

SearchNext ==
  \/ \E a \in Asks : SearchCall(a)
  \/ \E a \in Asks : SearchCheckEmbeddings(a)
  \/ \E a \in Asks : SearchCheckTexts(a)
  \/ \E a \in Asks : SearchSims(a)
  \/ \E a \in Asks : SearchLookup(a)
  \/ \E a \in Asks : AskRespond(a)

SearchSpec == SearchInit /\ [][SearchNext]_vars

(***************************************************************************)
(* Properties.                                                             *)
(***************************************************************************)
Returns(u) == up[u].pc # "done" /\ up'[u].pc = "done"

\* the chunks of a whole request, from the text of its files in order
RequestChunks(files) ==
  chunk_text(JoinLines([i \in 1..Len(files) |-> read_pdf(files[i])]),
             DefaultChunkSize, DefaultOverlap)

\* C1: when an upload returns "Indexed N chunks.", the stored chunk texts are
\* exactly the N chunks of that upload's files, in order, and nothing of an
\* earlier upload is left.
C1_UploadReplacesIndex ==
  [][\A u \in Uploads :
       (Returns(u) /\ up'[u].resp.kind = Indexed(0).kind)
         => /\ texts' = RequestChunks(up[u].files)
            /\ up'[u].resp.n = Len(texts')
            /\ Len(texts') > 0]_vars

\* an upload of 3 chunks and an upload of 2 chunks have both returned and the
\* index holds the 2 chunks
C1_Witness ==
  \E u, v \in Uploads :
    /\ up[u].pc = "done" /\ up[u].resp = Indexed(3)
    /\ up[v].pc = "done" /\ up[v].resp = Indexed(2)
    /\ Len(texts) = 2
    /\ embeddings = Matrix(encode(texts))

\* C2: an upload whose files yield no non-empty chunk returns "No text
\* extracted." and none of its steps changes the stored texts or embeddings.
C2_NoTextLeavesIndex ==
  [][\A u \in Uploads :
       /\ (up[u].pc = "read" /\ up[u].idx = Len(up[u].files)
           /\ up'[u] # up[u] /\ RequestChunks(up[u].files) = <<>>)
            => (up'[u].pc = "done" /\ up'[u].resp \in {NoTextExtracted, ErrorResp})
       /\ (up[u].pc = "read" /\ up'[u] # up[u])
            => UNCHANGED <<texts, embeddings>>
       /\ (Returns(u) /\ up'[u].resp = NoTextExtracted)
            => /\ up[u].pc = "read"
               /\ RequestChunks(up[u].files) = <<>>
               /\ UNCHANGED <<texts, embeddings>>]_vars

\* an upload has returned "No text extracted." next to a populated index
C2_Witness ==
  \E u, v \in Uploads :
    /\ up[u].pc = "done" /\ up[u].resp = NoTextExtracted
    /\ up[v].pc = "done" /\ up[v].resp.kind = Indexed(0).kind
    /\ texts # <<>>
    /\ embeddings = Matrix(encode(texts))

\* C3: when an upload returns, however it ends, none of its files is left at
\* its temporary path, and a file's path is deleted before the next file of
\* the request is taken up.
C3_NoTempFileLeft ==
  [][\A u \in Uploads :
       /\ Returns(u) =>
            \A i \in 1..Len(up[u].files) :
              disk'[TmpPath(FileOf(up[u].files[i]).filename)] = Absent
       /\ up'[u].idx > up[u].idx =>
            disk'[CurPath(u)] = Absent]_vars

NoUploadInProgress == \A u \in Uploads : up[u].pc \in {"idle", "done"}

\* C4: whenever no upload is in progress there are as many stored chunk texts
\* as stored embedding rows, an unset matrix counting as no row.
C4_IndexPairing ==
  NoUploadInProgress => Len(texts) = Len(embeddings.rows)

IndexEmpty == texts = <<>> /\ embeddings.none

\* C5: while the index is empty a search returns nothing and does not embed
\* the query, whatever the query and k, and the request is answered "No
\* documents indexed yet. Upload PDFs first." without a call of the answer
\* generator.
C5_EmptyIndexSearch ==
  IndexEmpty =>
    \A a \in Asks :
      /\ rq[a].pc \notin {"check_texts", "sims", "lookup"}
      /\ ~rq[a].embedded
      /\ rq[a].ctx = <<>>
      /\ rq[a].pc = "done" => (rq[a].resp = NoDocuments /\ ~rq[a].generated)

C5_Witness ==
  /\ IndexEmpty
  /\ \E a \in Asks : rq[a].pc = "done" /\ rq[a].resp = NoDocuments

WholeTrimmed(text) == IF Strip(text) = <<>> THEN <<>> ELSE <<Strip(text)>>

\* C6 as stated: with W > O >= 0, a text no longer than W gives the single
\* chunk of the whole trimmed text, or no chunk if the text is blank.
C6_Original ==
  (ck.pc = "done" /\ ck.chunk_size > ck.overlap /\ Len(ck.text) <= ck.chunk_size)
    => ck.result = WholeTrimmed(ck.text)

\* C6 amended: with W > O >= 0, a text no longer than W - O gives the single
\* chunk of the whole trimmed text, or no chunk if the text is blank.
C6_ShortTextOneChunk ==
  (ck.pc = "done" /\ ck.chunk_size > ck.overlap
     /\ Len(ck.text) <= ck.chunk_size - ck.overlap)
    => ck.result = WholeTrimmed(ck.text)

\* a text with white space at its ends, as long as W - O, came out as one
\* trimmed chunk
C6_Witness ==
  /\ ck.pc = "done"
  /\ ck.overlap > 0
  /\ Len(ck.text) = ck.chunk_size - ck.overlap
  /\ Len(ck.result) = 1
  /\ ck.result[1] # ck.text

\* C7: on a non-empty index of n chunks search(q, k) returns min(k, n) chunk
\* texts, by non-increasing similarity, and no chunk left out is strictly more
\* similar than a chunk returned.
C7_TopK ==
  [][\A a \in Asks :
       (rq[a].pc = "lookup" /\ rq'[a].pc = "respond" /\ Populated) =>
         LET sims == cosine_similarity(rq[a].q_emb, embeddings.rows)
             top == rq[a].top_k
             ctx == rq'[a].ctx
             n == Len(texts)
         IN /\ Len(ctx) = Min(rq[a].k, n)
            /\ Len(top) = Len(ctx)
            /\ \A j \in 1..Len(top) : ctx[j] = texts[top[j] + 1]
            /\ \A i, j \in 1..Len(top) :
                 i < j => SimLeq(sims[top[j] + 1], sims[top[i] + 1])
            /\ \A i \in 1..n, j \in 1..Len(top) :
                 (\A m \in 1..Len(top) : top[m] # i - 1)
                   => ~SimLess(sims[top[j] + 1], sims[i])]_vars

\* C8: the index becomes populated only when an upload with at least one
\* chunk completes build_index, a populated index stays populated, and a
\* request whose search checks a populated index never takes the empty
\* branch, the only one answered "No documents indexed yet. Upload PDFs
\* first.".
C8_PopulatedForGood ==
  /\ [][Populated => Populated']_vars
  /\ [][(~Populated /\ Populated') =>
          \E u \in Uploads :
            /\ up[u].pc = "encode"
            /\ Len(up[u].chunks) > 0
            /\ up'[u].pc = "done"
            /\ up'[u].resp = Indexed(Len(up[u].chunks))]_vars
  /\ [][\A a \in Asks :
          /\ (Populated /\ rq[a].pc \in {"check_embeddings", "check_texts"}
              /\ rq'[a] # rq[a])
               => rq'[a].pc \in {"check_texts", "sims"}
          /\ (rq[a].pc = "lookup" /\ rq'[a].pc = "respond")
               => rq'[a].ctx # <<>>
          /\ (rq[a].pc # "done" /\ rq'[a].pc = "done" /\ rq'[a].resp = NoDocuments)
               => (rq[a].pc = "respond" /\ rq[a].ctx = <<>>)]_vars

\* the index is populated, an upload without text or a failed upload and a
\* successful upload have returned, and a request has been answered from
\* the index
C8_Witness ==
  /\ Populated
  /\ \E u, v \in Uploads :
       /\ up[u].pc = "done" /\ up[u].resp \in {NoTextExtracted, ErrorResp}
       /\ up[v].pc = "done" /\ up[v].resp.kind = Indexed(0).kind
  /\ \E a \in Asks : rq[a].pc = "done" /\ rq[a].resp = Answer

NoUploadFailed == \A u \in Uploads : up[u].resp # ErrorResp
InsideBuildIndex(u) == up[u].pc = "encode"

\* C9: build_index assigns the texts first and the embeddings later, with
\* nothing that keeps a reader out in between: between the two assignments
\* the index holds the new texts and the old embeddings, and the stored
\* embeddings are those of the stored texts whenever no upload is between
\* the two assignments and none has failed.
C9_TornBetweenAssignments ==
  /\ [][\A u \in Uploads :
          (up[u].pc = "build" /\ up'[u].pc = "encode")
            => (texts' = up[u].chunks /\ embeddings' = embeddings)]_vars
  /\ []((NoUploadFailed /\ \A u \in Uploads : ~InsideBuildIndex(u))
          => (IndexEmpty \/ embeddings = Matrix(encode(texts))))

\* a search that runs while an upload is between the two assignments of
\* build_index has picked a chunk text whose similarity was computed from
\* the embedding of another upload's chunk
C9_Witness ==
  /\ NoUploadFailed
  /\ \E u \in Uploads : InsideBuildIndex(u)
  /\ \E a \in Asks :
       /\ rq[a].pc = "lookup"
       /\ \E j \in 1..Len(rq[a].ctx) :
            /\ rq[a].ctx[j] \in {texts[i] : i \in 1..Len(texts)}
            /\ EmbedText(rq[a].ctx[j]) # rq[a].rows[rq[a].top_k[j] + 1]

\* C10: with W > O >= 0 chunk_text terminates, every iteration moves the
\* window start forward by W - O, and no chunk is longer than W; the start
\* fails to move forward only when O >= W.
C10_Terminates ==
  /\ (ck.pc = "loop" /\ ck.chunk_size > ck.overlap) ~> (ck.pc = "done")
  /\ [][(ck.pc = "loop" /\ ck'.pc = "loop" /\ ck' # ck) =>
          /\ ck.chunk_size > ck.overlap
               => ck'.start = ck.start + (ck.chunk_size - ck.overlap)
          /\ ck'.start <= ck.start => ck.overlap >= ck.chunk_size]_vars
  /\ []((ck.pc = "done" /\ ck.chunk_size > ck.overlap) =>
          /\ \A i \in 1..Len(ck.chunks) : Len(ck.chunks[i]) <= ck.chunk_size
          /\ \A i \in 1..Len(ck.result) : Len(ck.result[i]) <= ck.chunk_size)

\* the loop ran three times with an overlap and ended
C10_Witness ==
  /\ ck.pc = "done"
  /\ ck.overlap > 0
  /\ ck.chunk_size > ck.overlap
  /\ Len(ck.chunks) >= 3

====
